---- MODULE Spec2Model ----
(***************************************************************************)
(* Forward computation of the mesh graph network with the graph structure  *)
(* watcher (encode_process_decode_graph_structure_watcher.py), of the      *)
(* cloth model that wraps it (cloth_model.py), of its segment reduction,    *)
(* and of the trajectory dataset (flag_simple_torch_dataset.py).           *)
(*                                                                         *)
(* Numbers.  Tensors hold floats; the model keeps them as exact rationals  *)
(* <<numerator, denominator>> in lowest terms with a positive denominator, *)
(* so that scatter_mean is a quotient and not an integer division.         *)
(* Tensors.  A 2-D tensor is [shape |-> <<rows, cols>>, val |-> rows], so  *)
(* that a tensor of no rows keeps its width, as torch's shape does.        *)
(* Indices.  Node and segment indices are 0-based as in the source;        *)
(* TLA+ sequences are 1-based, hence the "+ 1" where a tensor is indexed.  *)
(***************************************************************************)
EXTENDS Integers, Sequences, FiniteSets, TLC

VARIABLES
    \* ---- GraphNetBlock._update_node_features / unsorted_segment_operation
    seg_pc,        \* "ready" before the reduction, "done" after it
    seg_agg,       \* GraphNetBlock.message_passing_aggregator
    seg_data,      \* edge_set.features  (E x W)
    seg_ids,       \* edge_set.receivers (E)
    seg_num,       \* num_nodes = node_features.shape[0]
    seg_result,    \* the tensor appended to the node features
    \* ---- cloth_model.Model.forward
    m_pc,          \* "ready" before the call of forward, "done" after it
    inputs,        \* the frame: world_pos, prev|world_pos, mesh_pos, node_type, cells
    is_training,   \* the mode
    m_calls,       \* the graphs self.learned_model was applied to, in order
    m_output,      \* per_node_network_output: what self.learned_model returned
    m_result,      \* what forward returned
    \* ---- EncodeProcessDecode
    pc,            \* "new", "constructed", "processing", "pooled", "done"
    config,        \* the arguments of EncodeProcessDecode.__init__
    params,        \* the learned networks of the model
    graph,         \* the raw MultiGraph given to forward
    latent_graph,  \* the latent MultiGraph of the running forward pass
    step,          \* how many GraphNetBlocks of the processor have run
    block_in,      \* the graph the last GraphNetBlock received
    block_out,     \* the outputs of its node and edge networks (before the residual)
    sort_indices,  \* the nodes the watcher selected
    gate,          \* high_rank_tensor after the softmax
    mixed,         \* node_result as the reduce network receives it
    output,        \* what forward returned
    \* ---- FlagSimpleDataset.__getitem__
    d_pc,          \* "stored", "decoded", "targeted", "returned", "raised"
    meta,          \* meta.json: trajectory_length and the type of every field
    flags,         \* the add_targets and split_and_preprocess arguments
    trajectory,    \* the decoded trajectory: field name -> frames
    with_targets,  \* the trajectory after the add_targets stage
    returned       \* what __getitem__ returned, or the error it raised

segVars == <<seg_pc, seg_agg, seg_data, seg_ids, seg_num, seg_result>>
modelVars == <<m_pc, inputs, is_training, m_calls, m_output, m_result>>

dataVars == <<d_pc, meta, flags, trajectory, with_targets, returned>>

netVars == <<pc, config, params, graph, latent_graph, step, block_in, block_out,
             sort_indices, gate, mixed, output>>

vars == <<seg_pc, seg_agg, seg_data, seg_ids, seg_num, seg_result,
          m_pc, inputs, is_training, m_calls, m_output, m_result,
          pc, config, params, graph, latent_graph, step, block_in, block_out,
          sort_indices, gate, mixed, output,
          d_pc, meta, flags, trajectory, with_targets, returned>>

-----------------------------------------------------------------------------
(* Bounds *)

MaxRows == 4          \* rows (edges) of a reduced tensor
MaxSegments == 3      \* num_segments (nodes) of a reduction
MaxFrameNodes == 3    \* nodes of a frame given to Model.forward
MaxCells == 1         \* triangles of a frame given to Model.forward
MaxNodes == 2         \* nodes of a graph given to EncodeProcessDecode.forward
MaxEdges == 2         \* edges of a graph given to EncodeProcessDecode.forward
MaxSteps == 2         \* message_passing_steps
MaxLength == 4        \* time steps of a short stored trajectory

-----------------------------------------------------------------------------
(* The parts of the state a specification does not use stay at these values *)

IdleSegment ==
    /\ seg_pc = "idle" /\ seg_agg = "" /\ seg_data = <<>> /\ seg_ids = <<>>
    /\ seg_num = 0 /\ seg_result = <<>>

IdleModel ==
    /\ m_pc = "idle" /\ inputs = <<>> /\ is_training = FALSE /\ m_calls = <<>>
    /\ m_output = <<>> /\ m_result = <<>>

IdleDataset ==
    /\ d_pc = "idle" /\ meta = <<>> /\ flags = <<>> /\ trajectory = <<>>
    /\ with_targets = <<>> /\ returned = <<>>

IdleNet ==
    /\ pc = "idle" /\ config = <<>> /\ params = <<>> /\ graph = <<>>
    /\ latent_graph = <<>> /\ step = 0 /\ block_in = <<>> /\ block_out = <<>>
    /\ sort_indices = <<>> /\ gate = <<>> /\ mixed = <<>> /\ output = <<>>

-----------------------------------------------------------------------------
(* Exact arithmetic on floats *)

Abs(n) == IF n < 0 THEN -n ELSE n

RECURSIVE GCD(_, _)
GCD(a, b) == IF b = 0 THEN a ELSE GCD(b, a % b)

\* the rational n/d (d # 0) in lowest terms
Rat(n, d) ==
    LET g == GCD(Abs(n), Abs(d))
        s == IF d < 0 THEN -1 ELSE 1
    IN  << (s * n) \div g, (s * d) \div g >>

R(n) == << n, 1 >>

\* (whole numbers, the common case, skip the reduction to lowest terms)
QAdd(a, b) == IF a[2] = 1 /\ b[2] = 1 THEN << a[1] + b[1], 1 >>
              ELSE Rat(a[1] * b[2] + b[1] * a[2], a[2] * b[2])
QSub(a, b) == IF a[2] = 1 /\ b[2] = 1 THEN << a[1] - b[1], 1 >>
              ELSE Rat(a[1] * b[2] - b[1] * a[2], a[2] * b[2])
QMul(a, b) == IF a[2] = 1 /\ b[2] = 1 THEN << a[1] * b[1], 1 >>
              ELSE Rat(a[1] * b[1], a[2] * b[2])
QDiv(a, b) == Rat(a[1] * b[2], a[2] * b[1])
QLess(a, b) == a[1] * b[2] < b[1] * a[2]

\* the sum, the greatest and the least of the first n entries of a sequence
RECURSIVE QSumTo(_, _)
QSumTo(s, n) == IF n = 0 THEN R(0) ELSE QAdd(QSumTo(s, n - 1), s[n])

QSum(s) == QSumTo(s, Len(s))

RECURSIVE QMaxTo(_, _)
QMaxTo(s, n) == IF n = 1 THEN s[1]
                ELSE LET m == QMaxTo(s, n - 1) IN IF QLess(m, s[n]) THEN s[n] ELSE m

QMax(s) == QMaxTo(s, Len(s))

RECURSIVE QMinTo(_, _)
QMinTo(s, n) == IF n = 1 THEN s[1]
                ELSE LET m == QMinTo(s, n - 1) IN IF QLess(s[n], m) THEN s[n] ELSE m

QMin(s) == QMinTo(s, Len(s))

-----------------------------------------------------------------------------
(* Tensors *)

Rows(t) == t.shape[1]
Cols(t) == t.shape[2]

\* a sequence given by a function over 1..n, its entries computed once
Eager(s) == s \o <<>>

\* a tensor given by functions over its rows and columns, its entries
\* computed once
Fix(t) == [shape |-> t.shape, val |-> Eager([i \in 1..t.shape[1] |-> Eager(t.val[i])])]

\* torch.zeros(r, c)
Zeros(r, c) == Fix([shape |-> <<r, c>>, val |-> [i \in 1..r |-> [j \in 1..c |-> R(0)]]])

\* a tensor from its rows, all of width c
FromRows(rows, c) == Fix([shape |-> <<Len(rows), c>>, val |-> rows])

\* a row of integers as a row of floats
IntRow(r) == Eager([j \in 1..Len(r) |-> R(r[j])])

\* a - b, element-wise, of two tensors of one shape
TSub(a, b) ==
    Fix([shape |-> a.shape,
     val |-> [i \in 1..Rows(a) |-> [j \in 1..Cols(a) |->
                QSub(a.val[i][j], b.val[i][j])]]])

\* a + b, element-wise, of two tensors of one shape
TAdd(a, b) ==
    Fix([shape |-> a.shape,
     val |-> [i \in 1..Rows(a) |-> [j \in 1..Cols(a) |->
                QAdd(a.val[i][j], b.val[i][j])]]])

\* k * a for a number k
TScale(k, a) ==
    Fix([shape |-> a.shape,
     val |-> [i \in 1..Rows(a) |-> [j \in 1..Cols(a) |-> QMul(k, a.val[i][j])]]])

\* torch.index_select(input, dim=0, index): the rows named by index (0-based)
index_select(input, index) ==
    Fix([shape |-> <<Len(index), Cols(input)>>,
     val |-> [e \in 1..Len(index) |-> input.val[index[e] + 1]]])

\* torch.cat((a, b), dim=-1) of two tensors with the same number of rows
Cat2(a, b) ==
    Fix([shape |-> <<Rows(a), Cols(a) + Cols(b)>>,
     val |-> [i \in 1..Rows(a) |-> a.val[i] \o b.val[i]]])

\* torch.cat(features, dim=-1) of a non-empty list of tensors
RECURSIVE Cat(_)
Cat(ts) == IF Len(ts) = 1 THEN ts[1] ELSE Cat2(ts[1], Cat(Tail(ts)))

-----------------------------------------------------------------------------
(* torch_scatter reductions along dim 0, with dim_size rows in the result  *)

\* the values, in row order, that column j of data scatters into segment n
RECURSIVE Gather(_, _, _, _, _)
Gather(data, ids, n, j, e) ==
    IF e = 0 THEN <<>>
    ELSE LET rest == Gather(data, ids, n, j, e - 1)
         IN  IF ids[e] = n THEN Append(rest, data.val[e][j]) ELSE rest

Segment(data, ids, n, j) == Gather(data, ids, n, j, Rows(data))

scatter_add(data, ids, dim_size) ==
    Fix([shape |-> <<dim_size, Cols(data)>>,
     val |-> [i \in 1..dim_size |-> [j \in 1..Cols(data) |->
                QSum(Segment(data, ids, i - 1, j))]]])

\* (mutation of scatter_max: an output row that no index points at keeps the
\* lowest value the reduction starts from)
scatter_max_sentinel(data, ids, dim_size) ==
    Fix([shape |-> <<dim_size, Cols(data)>>,
     val |-> [i \in 1..dim_size |-> [j \in 1..Cols(data) |->
                LET s == Segment(data, ids, i - 1, j)
                IN  IF s = <<>> THEN R(-1000000) ELSE QMax(s)]]])

\* an output row that no index points at is left at 0
scatter_max(data, ids, dim_size) ==
    Fix([shape |-> <<dim_size, Cols(data)>>,
     val |-> [i \in 1..dim_size |-> [j \in 1..Cols(data) |->
                LET s == Segment(data, ids, i - 1, j)
                IN  IF s = <<>> THEN R(0) ELSE QMax(s)]]])

scatter_min(data, ids, dim_size) ==
    Fix([shape |-> <<dim_size, Cols(data)>>,
     val |-> [i \in 1..dim_size |-> [j \in 1..Cols(data) |->
                LET s == Segment(data, ids, i - 1, j)
                IN  IF s = <<>> THEN R(0) ELSE QMin(s)]]])

\* (mutation of scatter_mean: the sum divided by the number of all rows)
scatter_mean_fixed(data, ids, dim_size) ==
    Fix([shape |-> <<dim_size, Cols(data)>>,
     val |-> [i \in 1..dim_size |-> [j \in 1..Cols(data) |->
                LET s == Segment(data, ids, i - 1, j)
                    count == IF Rows(data) < 1 THEN 1 ELSE Rows(data)
                IN  QDiv(QSum(s), R(count))]]])

\* the sum divided by the segment's own count, the count clamped to 1
scatter_mean(data, ids, dim_size) ==
    Fix([shape |-> <<dim_size, Cols(data)>>,
     val |-> [i \in 1..dim_size |-> [j \in 1..Cols(data) |->
                LET s == Segment(data, ids, i - 1, j)
                    count == IF Len(s) < 1 THEN 1 ELSE Len(s)
                IN  QDiv(QSum(s), R(count))]]])

\* GraphNetBlock.unsorted_segment_operation: the branch is taken on the
\* operation's name; a name that matches no branch leaves the zeros.
unsorted_segment_operation(data, segment_ids, num_segments, operation) ==
    LET result == Zeros(num_segments, Cols(data))
    IN  CASE operation = "add"  -> scatter_add(data, segment_ids, num_segments)
          [] operation = "max"  -> scatter_max(data, segment_ids, num_segments)
          [] operation = "mean" -> scatter_mean(data, segment_ids, num_segments)
          [] operation = "min"  -> scatter_min(data, segment_ids, num_segments)
          [] OTHER              -> result

-----------------------------------------------------------------------------
(* Segment reduction of one edge set, as _update_node_features calls it    *)

\* aggregator names a model is built with
AggregatorNames == {"sum", "add", "mean", "max", "min"}

\* feature rows of the reduced edge set
SegRows == << <<1, -1>>, <<2, 0>>, <<3, 2>>, <<4, -3>> >>
SegWidth == Len(SegRows[1])

\* the edge features: up to MaxRows rows, listed by nondecreasing row number
\* (the receivers below are in any order, so every pairing of rows with
\* segments occurs)
SegTensors ==
    UNION { { FromRows([e \in 1..n |-> IntRow(SegRows[f[e]])], SegWidth) :
                f \in { g \in [1..n -> 1..Len(SegRows)] :
                           \A e \in 1..(n - 1) : g[e] <= g[e + 1] } } :
            n \in 0..MaxRows }

InitSegment ==
    /\ seg_pc = "ready"
    /\ seg_agg \in AggregatorNames
    /\ seg_data \in SegTensors
    /\ seg_num \in 1..MaxSegments
    /\ seg_ids \in [1..Rows(seg_data) -> 0..(seg_num - 1)]
    /\ seg_result = Zeros(0, 0)
    /\ IdleModel
    /\ IdleNet
    /\ IdleDataset

\* features.append(self.unsorted_segment_operation(edge_set.features,
\*     edge_set.receivers, num_nodes, operation=self.message_passing_aggregator))
SegmentReduce ==
    /\ seg_pc = "ready"
    /\ seg_result' = unsorted_segment_operation(seg_data, seg_ids, seg_num, seg_agg)
    /\ seg_pc' = "done"
    /\ UNCHANGED <<seg_agg, seg_data, seg_ids, seg_num>>
    /\ UNCHANGED modelVars
    /\ UNCHANGED netVars
    /\ UNCHANGED dataVars

NextSegment == SegmentReduce

SpecSegment == InitSegment /\ [][NextSegment]_vars

-----------------------------------------------------------------------------
(* cloth_model.Model *)

\* common.NodeType.SIZE: the number of node types (the member set is an
\* external contract)
NodeTypeSize == 9

\* F.one_hot(node_type[:, 0], NodeType.SIZE)
one_hot(types, size) ==
    Fix([shape |-> <<Len(types), size>>,
     val |-> [i \in 1..Len(types) |-> [j \in 1..size |->
                IF j = types[i] + 1 THEN R(1) ELSE R(0)]]])

\* the square root of a float, kept exact as a term
Sqrt(q) == << "sqrt", q >>

\* torch.norm(t, dim=-1, keepdim=True): a column of Euclidean norms
norm(t) ==
    Fix([shape |-> <<Rows(t), 1>>,
     val |-> [i \in 1..Rows(t) |->
                << Sqrt(QSum([j \in 1..Cols(t) |-> QMul(t.val[i][j], t.val[i][j])])) >>]])

\* common.triangles_to_edges(cells): each triangle (a, b, c) gives the edges
\* (a,b), (b,c), (c,a), and every edge is listed in both directions, without
\* removing duplicates
triangles_to_edges(cells) ==
    LET C == cells
        firsts  == [i \in 1..Len(C) |-> C[i][1]] \o [i \in 1..Len(C) |-> C[i][2]]
                     \o [i \in 1..Len(C) |-> C[i][3]]
        seconds == [i \in 1..Len(C) |-> C[i][2]] \o [i \in 1..Len(C) |-> C[i][3]]
                     \o [i \in 1..Len(C) |-> C[i][1]]
    IN  [senders |-> firsts \o seconds, receivers |-> seconds \o firsts]

\* Model._build_graph
build_graph(in) ==
    LET world_pos == in["world_pos"]
        prev_world_pos == in["prev|world_pos"]
        velocity == TSub(world_pos, prev_world_pos)
        node_type == one_hot(in["node_type"], NodeTypeSize)
        node_features == Cat2(velocity, node_type)
        edges == triangles_to_edges(in["cells"])
        senders == edges.senders
        receivers == edges.receivers
        mesh_pos == in["mesh_pos"]
        relative_world_pos == TSub(index_select(world_pos, senders),
                                   index_select(world_pos, receivers))
        relative_mesh_pos == TSub(index_select(mesh_pos, senders),
                                  index_select(mesh_pos, receivers))
        edge_features == Cat(<< relative_world_pos, norm(relative_world_pos),
                                relative_mesh_pos, norm(relative_mesh_pos) >>)
        mesh_edges == [name |-> "mesh_edges", features |-> edge_features,
                       receivers |-> receivers, senders |-> senders]
    IN  [node_features |-> node_features, edge_sets |-> << mesh_edges >>]

\* (mutation of _update: an explicit Euler step, the previous position unused)
update_first_order(in, per_node_network_output) ==
    LET acceleration == per_node_network_output
        cur_position == in["world_pos"]
    IN  TAdd(cur_position, acceleration)

\* Model._update
update(in, per_node_network_output) ==
    LET acceleration == per_node_network_output
        cur_position == in["world_pos"]
        prev_position == in["prev|world_pos"]
        position == TSub(TAdd(TScale(R(2), cur_position), acceleration), prev_position)
    IN  position

\* (mutation of the return of forward: the integrator runs in both modes)
forward_return_integrated(in, training, network_output) == update(in, network_output)

\* what Model.forward returns, given what self.learned_model returned
forward_return(in, training, network_output) ==
    IF training THEN network_output ELSE update(in, network_output)

\* the nodes of a frame: world_pos, prev|world_pos, mesh_pos, node_type
FrameNodes ==
    { [w |-> <<1, 0, 0>>, p |-> <<0, 0, 0>>, m |-> <<0, 0>>, t |-> 0],
      [w |-> <<0, 2, 1>>, p |-> <<1, 1, 0>>, m |-> <<1, 0>>, t |-> 1],
      [w |-> <<2, 1, 3>>, p |-> <<2, 1, 3>>, m |-> <<0, 1>>, t |-> 0] }

\* the triangles over n nodes: cells index nodes within bounds
FrameCells(n) == { <<i, i + 1, i + 2>> : i \in 0..(n - 3) }

Frame(nodes, cells) ==
    [x \in {"world_pos", "prev|world_pos", "mesh_pos", "node_type", "cells"} |->
        CASE x = "world_pos" -> FromRows([i \in 1..Len(nodes) |-> IntRow(nodes[i].w)], 3)
          [] x = "prev|world_pos" -> FromRows([i \in 1..Len(nodes) |-> IntRow(nodes[i].p)], 3)
          [] x = "mesh_pos" -> FromRows([i \in 1..Len(nodes) |-> IntRow(nodes[i].m)], 2)
          [] x = "node_type" -> [i \in 1..Len(nodes) |-> nodes[i].t]
          [] x = "cells" -> cells]

Frames ==
    UNION { { Frame(nodes, cells) :
                nodes \in [1..n -> FrameNodes],
                cells \in UNION { [1..c -> FrameCells(n)] : c \in 0..MaxCells } } :
            n \in 1..MaxFrameNodes }

\* the rows self.learned_model may return for a node
OutputRows == { <<0, 0, 0>>, <<1, -2, 0>>, <<-1, 0, 3>> }

\* the tensors self.learned_model may return for a graph of n nodes
NetworkOutputs(n) ==
    { FromRows([i \in 1..n |-> IntRow(f[i])], 3) : f \in [1..n -> OutputRows] }

InitModel ==
    /\ m_pc = "ready"
    /\ inputs \in Frames
    /\ is_training \in BOOLEAN
    /\ m_calls = <<>>
    /\ m_output = Zeros(0, 0)
    /\ m_result = Zeros(0, 0)
    /\ IdleSegment
    /\ IdleNet
    /\ IdleDataset

\* Model.forward(inputs, is_training); the learned model is a parameter of
\* Model, so its output is any per-node tensor
Forward ==
    /\ m_pc = "ready"
    /\ LET built == build_graph(inputs)
       IN  \E network_output \in NetworkOutputs(Rows(built.node_features)) :
             /\ m_calls' = Append(m_calls, built)
             /\ m_output' = network_output
             /\ m_result' = forward_return(inputs, is_training, network_output)
    /\ m_pc' = "done"
    /\ UNCHANGED <<inputs, is_training>>
    /\ UNCHANGED segVars
    /\ UNCHANGED netVars
    /\ UNCHANGED dataVars

NextModel == Forward

SpecModel == InitModel /\ [][NextModel]_vars

-----------------------------------------------------------------------------
(* Learned networks *)

\* entry k of a row, 0 beyond its end (a weight of 0 on a missing input)
At(row, k) == IF k \in 1..Len(row) THEN row[k] ELSE R(0)

\* A network built by _make_mlp (LazyMLP with its LayerNorm) is a learned
\* function from a feature row to a row of width output_size.  The model draws
\* it from three linear maps: "first" returns the first output_size entries of
\* its input, "last" the last output_size entries, "sum" the sum of the
\* consecutive blocks of output_size entries.
NetKinds == {"first", "last", "sum"}

NetRow(kind, output_size, row) ==
    [i \in 1..output_size |->
        CASE kind = "first" -> At(row, i)
          [] kind = "last"  -> At(row, Len(row) - output_size + i)
          [] kind = "sum"   ->
               QSum([b \in 1..((Len(row) + output_size - 1) \div output_size) |->
                        At(row, (b - 1) * output_size + i)])]

\* LazyMLP.forward, row by row
mlp(kind, output_size, input) ==
    Fix([shape |-> <<Rows(input), output_size>>,
     val |-> [i \in 1..Rows(input) |-> NetRow(kind, output_size, input.val[i])]])

-----------------------------------------------------------------------------
(* Encoder, GraphNetBlock, Processor, GraphStructureWatcher, Decoder *)

\* (mutation of Encoder.forward: only the first edge set is encoded and kept)
Encoder_forward_first_only(g, p, latent_size) ==
    [node_features |-> mlp(p.enc_node, latent_size, g.node_features),
     edge_sets |-> Eager([i \in 1..(IF Len(g.edge_sets) > 1 THEN 1 ELSE Len(g.edge_sets)) |->
                      [g.edge_sets[i] EXCEPT
                          !.features = mlp(p.enc_edge, latent_size, @)]])]

\* Encoder.forward
Encoder_forward(g, p, latent_size) ==
    LET node_latents == mlp(p.enc_node, latent_size, g.node_features)
        new_edges_sets == Eager([i \in 1..Len(g.edge_sets) |->
                             [g.edge_sets[i] EXCEPT
                                 !.features = mlp(p.enc_edge, latent_size, @)]])
    IN  [node_features |-> node_latents, edge_sets |-> new_edges_sets]

\* GraphNetBlock._update_edge_features
update_edge_features(node_features, edge_set, p, latent_size) ==
    LET sender_features == index_select(node_features, edge_set.senders)
        receiver_features == index_select(node_features, edge_set.receivers)
        features == Cat(<< sender_features, receiver_features, edge_set.features >>)
    IN  mlp(p.edge, latent_size, features)

\* GraphNetBlock._update_node_features
update_node_features(node_features, edge_sets, p, latent_size, aggregator) ==
    LET num_nodes == Rows(node_features)
        features == << node_features >> \o
                    Eager([i \in 1..Len(edge_sets) |->
                        unsorted_segment_operation(edge_sets[i].features,
                            edge_sets[i].receivers, num_nodes, aggregator)])
    IN  mlp(p.node, latent_size, Cat(features))

\* (mutation of the residual connections: the networks' outputs are returned)
add_residual_none(new_node_features, new_edge_sets, g) ==
    [node_features |-> new_node_features, edge_sets |-> new_edge_sets]

\* GraphNetBlock.forward, "add residual connections"
add_residual(new_node_features, new_edge_sets, g) ==
    [node_features |-> TAdd(new_node_features, g.node_features),
     edge_sets |-> Eager([i \in 1..Len(new_edge_sets) |->
                      [new_edge_sets[i] EXCEPT
                          !.features = TAdd(@, g.edge_sets[i].features)]])]

\* (mutation of the update order: the node function is applied first, to the
\* input edge latents, and the edge functions read the updated nodes)
GraphNetBlock_forward_nodes_first(g, p, latent_size, aggregator) ==
    LET new_node_features == update_node_features(g.node_features, g.edge_sets,
                                                  p, latent_size, aggregator)
        new_edge_sets == Eager([i \in 1..Len(g.edge_sets) |->
                            [g.edge_sets[i] EXCEPT
                                !.features = update_edge_features(new_node_features,
                                                 g.edge_sets[i], p, latent_size)]])
    IN  [graph |-> add_residual(new_node_features, new_edge_sets, g),
         node_out |-> new_node_features,
         edge_out |-> Eager([i \in 1..Len(new_edge_sets) |-> new_edge_sets[i].features])]

\* GraphNetBlock.forward; next to the returned graph, the outputs of the two
\* networks are kept for the properties below
GraphNetBlock_forward(g, p, latent_size, aggregator) ==
    LET new_edge_sets == Eager([i \in 1..Len(g.edge_sets) |->
                            [g.edge_sets[i] EXCEPT
                                !.features = update_edge_features(g.node_features,
                                                 g.edge_sets[i], p, latent_size)]])
        new_node_features == update_node_features(g.node_features, new_edge_sets,
                                                  p, latent_size, aggregator)
    IN  [graph |-> add_residual(new_node_features, new_edge_sets, g),
         node_out |-> new_node_features,
         edge_out |-> Eager([i \in 1..Len(new_edge_sets) |-> new_edge_sets[i].features])]

\* torch.transpose(t, 0, 1)
transpose(t) ==
    Fix([shape |-> <<Cols(t), Rows(t)>>,
     val |-> [i \in 1..Cols(t) |-> [j \in 1..Rows(t) |-> t.val[j][i]]]])

\* torch.matmul(a, b) of an (n x k) with a (k x m) tensor
matmul(a, b) ==
    Fix([shape |-> <<Rows(a), Cols(b)>>,
     val |-> [i \in 1..Rows(a) |-> [j \in 1..Cols(b) |->
                QSum([k \in 1..Cols(a) |-> QMul(a.val[i][k], b.val[k][j])])]]])

\* F.softmax of a 2-D tensor normalises each row (the implicit dim is 1).
\* exp is not a rational function: the weight of entry x is kept as
\* x - min(row) + 1 in place of exp(x), which like exp is positive and
\* increasing, and each row is divided by its own sum.
softmax(t) ==
    Fix([shape |-> t.shape,
     val |-> [i \in 1..Rows(t) |->
                LET row == t.val[i]
                    least == QMin(row)
                    w == Eager([j \in 1..Len(row) |-> QAdd(QSub(row[j], least), R(1))])
                    total == QSum(w)
                IN  [j \in 1..Len(row) |-> QDiv(w[j], total)]]])

\* graph.node_features[:, 0:3]
velocity_columns(node_features) ==
    Fix([shape |-> <<Rows(node_features), 3>>,
     val |-> [i \in 1..Rows(node_features) |-> SubSeq(node_features.val[i], 1, 3)]])

\* torch.sum(torch.square(velocity_matrix), dim=-1)
sum_of_squares(velocity_matrix) ==
    Eager([i \in 1..Rows(velocity_matrix) |->
        QSum([j \in 1..3 |-> QMul(velocity_matrix.val[i][j], velocity_matrix.val[i][j])])])

\* torch.sort(x, dim=0, descending=True) without stable=True: the indices of
\* any ordering of x by non-increasing value; equal values come in any order
sort_descending(x) ==
    { o \in [1..Len(x) -> 0..(Len(x) - 1)] :
        /\ \A i, j \in 1..Len(x) : i # j => o[i] # o[j]
        /\ \A i, j \in 1..Len(x) : i < j => ~QLess(x[o[i] + 1], x[o[j] + 1]) }

\* ceil(n * 0.01), high_rank_percentage = 0.01
high_rank_number(n) == (n + 99) \div 100

\* (mutation of the mixing product: the gate is transposed, not the latents)
watcher_mix_gate_transposed(high_rank_tensor, node_features) ==
    transpose(matmul(transpose(high_rank_tensor), node_features))

\* node_result of GraphStructureWatcher.forward before the reduce network
watcher_mix(high_rank_tensor, node_features) ==
    transpose(matmul(high_rank_tensor, transpose(node_features)))

\* GraphStructureWatcher.forward, for the ordering order that torch.sort gave
GraphStructureWatcher_forward(latent, g, order, p, latent_size) ==
    LET velocity_matrix == velocity_columns(g.node_features)
        number == high_rank_number(Len(order))
        indices == SubSeq(order, 1, number)
        selected == { indices[k] : k \in 1..number }
        high_rank_tensor ==
            Fix([shape |-> velocity_matrix.shape,
                 val |-> [i \in 1..Rows(velocity_matrix) |->
                            IF (i - 1) \in selected THEN velocity_matrix.val[i]
                            ELSE [j \in 1..3 |-> R(0)]]])
        expanded == softmax(mlp(p.expand, latent_size, high_rank_tensor))
        node_result == watcher_mix(expanded, latent.node_features)
    IN  [sort_indices |-> indices,
         gate |-> expanded,
         mixed |-> node_result,
         latent_graph |-> [latent EXCEPT
                             !.node_features = mlp(p.reduce, latent_size, node_result)]]

\* Decoder.forward
Decoder_forward(latent, p, output_size) == mlp(p.dec, output_size, latent.node_features)

-----------------------------------------------------------------------------
(* EncodeProcessDecode: construction and one forward pass *)

\* the four documented aggregator names and one that no code path knows
Aggregators == {"sum", "mean", "max", "min", "median"}

LatentSizes == {1, 2}
OutputSizes == {3}
NumLayers == {2}

\* the networks of a model: all identities on their entity's own latent, or
\* all mixing their whole input
Params ==
    { [enc_node |-> "first", enc_edge |-> "first", edge |-> "last", node |-> "first",
       expand |-> "first", reduce |-> "first", dec |-> "first"],
      [enc_node |-> "sum", enc_edge |-> "sum", edge |-> "sum", node |-> "sum",
       expand |-> "sum", reduce |-> "sum", dec |-> "sum"] }

\* raw node feature rows: three velocity components and one type column
NodeRows == { <<1, 0, 0, 0>>, <<0, 2, -1, 1>> }

\* the directed edges over n nodes a raw graph draws from: i -> i + 1 (mod n)
EdgePairs(n) == [i \in 1..n |-> << i - 1, i % n >>]

\* the edge lists of a raw graph: "ring" takes the pairs in turn, "fan"
\* repeats the first pair, so that one node receives every edge
EdgePatterns == {"ring", "fan"}

EdgeList(pattern, n, m) ==
    [e \in 1..m |-> IF pattern = "ring" THEN EdgePairs(n)[((e - 1) % n) + 1]
                    ELSE EdgePairs(n)[1]]

\* the edge set of the edges from..to of a list, with raw features
\* (sender - receiver, position in the list)
RawEdgeSet(name, edges, from, to) ==
    [name |-> name,
     features |-> FromRows([e \in 1..(to - from + 1) |->
                     IntRow(<< edges[from + e - 1][1] - edges[from + e - 1][2],
                               from + e - 1 >>)], 2),
     senders |-> Eager([e \in 1..(to - from + 1) |-> edges[from + e - 1][1]]),
     receivers |-> Eager([e \in 1..(to - from + 1) |-> edges[from + e - 1][2]])]

RawGraph(rows, edge_sets) ==
    [node_features |-> FromRows([i \in 1..Len(rows) |-> IntRow(rows[i])], 4),
     edge_sets |-> edge_sets]

\* raw graphs: up to MaxNodes nodes and MaxEdges edges, in one edge set
\* "mesh_edges" or (two edges) split over "mesh_edges" and "world_edges"
Graphs ==
    UNION { UNION { UNION {
        { RawGraph(rows, << RawEdgeSet("mesh_edges", EdgeList(pattern, n, m), 1, m) >>) }
        \cup
        ( IF m = 2
          THEN { RawGraph(rows, << RawEdgeSet("mesh_edges", EdgeList(pattern, n, m), 1, 1),
                                   RawEdgeSet("world_edges", EdgeList(pattern, n, m), 2, 2) >>) }
          ELSE {} ) :
              rows \in [1..n -> NodeRows], pattern \in EdgePatterns } :
            m \in 0..MaxEdges } : n \in 1..MaxNodes }

Init ==
    /\ pc = "new"
    /\ config = <<>> /\ params = <<>> /\ graph = <<>>
    /\ latent_graph = <<>> /\ step = 0 /\ block_in = <<>> /\ block_out = <<>>
    /\ sort_indices = <<>> /\ gate = <<>> /\ mixed = <<>> /\ output = <<>>
    /\ IdleSegment
    /\ IdleModel
    /\ IdleDataset

\* EncodeProcessDecode.__init__: the arguments are stored and the submodules
\* built; no argument is checked
Construct ==
    /\ pc = "new"
    /\ \E output_size \in OutputSizes, latent_size \in LatentSizes,
          num_layers \in NumLayers, message_passing_steps \in 0..MaxSteps,
          message_passing_aggregator \in Aggregators :
         config' = [output_size |-> output_size, latent_size |-> latent_size,
                    num_layers |-> num_layers,
                    message_passing_steps |-> message_passing_steps,
                    message_passing_aggregator |-> message_passing_aggregator]
    /\ params' \in Params
    /\ pc' = "constructed"
    /\ UNCHANGED <<graph, latent_graph, step, block_in, block_out,
                   sort_indices, gate, mixed, output>>
    /\ UNCHANGED <<segVars, modelVars, dataVars>>

\* EncodeProcessDecode.forward(graph): latent_graph = self.encoder(graph)
Encode ==
    /\ pc = "constructed"
    /\ graph' \in Graphs
    /\ latent_graph' = Encoder_forward(graph', params, config.latent_size)
    /\ step' = 0
    /\ pc' = "processing"
    /\ UNCHANGED <<config, params, block_in, block_out, sort_indices, gate, mixed, output>>
    /\ UNCHANGED <<segVars, modelVars, dataVars>>

\* Processor.forward: the next GraphNetBlock of self.submodules
Process ==
    /\ pc = "processing"
    /\ step < config.message_passing_steps
    /\ LET r == GraphNetBlock_forward(latent_graph, params, config.latent_size,
                                      config.message_passing_aggregator)
       IN  /\ latent_graph' = r.graph
           /\ block_out' = [node_features |-> r.node_out, edge_features |-> r.edge_out]
    /\ block_in' = latent_graph
    /\ step' = step + 1
    /\ UNCHANGED <<pc, config, params, graph, sort_indices, gate, mixed, output>>
    /\ UNCHANGED <<segVars, modelVars, dataVars>>

\* latent_graph = self.graph_structure_watcher(latent_graph, graph), once the
\* processor has run all its blocks
Watch ==
    /\ pc = "processing"
    /\ step >= config.message_passing_steps
    /\ \E order \in sort_descending(sum_of_squares(velocity_columns(graph.node_features))) :
         LET r == GraphStructureWatcher_forward(latent_graph, graph, order, params,
                                                config.latent_size)
         IN  /\ sort_indices' = r.sort_indices
             /\ gate' = r.gate
             /\ mixed' = r.mixed
             /\ latent_graph' = r.latent_graph
    /\ pc' = "pooled"
    /\ UNCHANGED <<config, params, graph, step, block_in, block_out, output>>
    /\ UNCHANGED <<segVars, modelVars, dataVars>>

\* return self.decoder(latent_graph)
Decode ==
    /\ pc = "pooled"
    /\ output' = Decoder_forward(latent_graph, params, config.output_size)
    /\ pc' = "done"
    /\ UNCHANGED <<config, params, graph, latent_graph, step, block_in, block_out,
                   sort_indices, gate, mixed>>
    /\ UNCHANGED <<segVars, modelVars, dataVars>>

Next == Construct \/ Encode \/ Process \/ Watch \/ Decode

Spec == Init /\ [][Next]_vars

-----------------------------------------------------------------------------
(* FlagSimpleDataset.__getitem__: decoding, add_targets, split_and_preprocess *)

\* for i in range(399)
RangeSteps == 399

FieldNames == {"cells", "mesh_pos", "node_type", "world_pos"}

\* the frame of a field that the record stores for time step t (0-based)
StoredFrame(key, t) == [field |-> key, step |-> t]

\* meta['features'][key]['type'] of every field: the flag_simple assignment,
\* every field dynamic, cells of varying length, and a type the loader rejects
FieldTypes ==
    { [cells |-> "static", mesh_pos |-> "static", node_type |-> "static",
       world_pos |-> "dynamic"],
      [cells |-> "dynamic", mesh_pos |-> "dynamic", node_type |-> "dynamic",
       world_pos |-> "dynamic"],
      [cells |-> "dynamic_varlen", mesh_pos |-> "dynamic", node_type |-> "static",
       world_pos |-> "dynamic"],
      [cells |-> "static", mesh_pos |-> "sparse", node_type |-> "static",
       world_pos |-> "dynamic"] }

\* meta['trajectory_length']: short trajectories and the lengths around the
\* one whose target-augmented form has RangeSteps frames
TrajectoryLengths == (1..MaxLength) \cup {RangeSteps + 2, RangeSteps + 3}

\* torch.reshape(mature_data, self.shapes[key]): a static field stores one
\* frame, any other field one frame per time step
reshaped_data(m, key) ==
    IF m.types[key] = "static" THEN << StoredFrame(key, 0) >>
    ELSE [t \in 1..m.trajectory_length |-> StoredFrame(key, t - 1)]

\* torch.tile(reshaped_data, (trajectory_length, 1, 1))
tile(data, times) == [t \in 1..(times * Len(data)) |-> data[((t - 1) % Len(data)) + 1]]

\* the loop of __getitem__ over the fields of the sample
decode(m) ==
    [key \in FieldNames |->
        IF m.types[key] = "static"
        THEN tile(reshaped_data(m, key), m.trajectory_length)
        ELSE reshaped_data(m, key)]

\* val[start:stop] along the first dimension, stop negative counting from the end
PySlice(val, start, stop) ==
    LET hi == IF stop < 0 THEN Len(val) + stop
              ELSE IF stop > Len(val) THEN Len(val) ELSE stop
    IN  IF start >= hi THEN <<>> ELSE SubSeq(val, start + 1, hi)

\* key in fields, where fields is the string 'world_pos': a substring test
InString(key, fields) ==
    \E i \in 1..(Len(fields) - Len(key) + 1) : SubSeq(fields, i, i + Len(key) - 1) = key

\* (mutation of add_targets: every field keeps the frames val[0:-2])
add_targets_unshifted(traj) ==
    LET fields == "world_pos"
        tracked == { key \in DOMAIN traj : InString(key, fields) }
        keys == (DOMAIN traj) \cup { "prev|" \o key : key \in tracked }
                              \cup { "target|" \o key : key \in tracked }
    IN  [k \in keys |->
            IF \E key \in tracked : k = "prev|" \o key
            THEN PySlice(traj[CHOOSE key \in tracked : k = "prev|" \o key], 0, -2)
            ELSE IF \E key \in tracked : k = "target|" \o key
            THEN LET val == traj[CHOOSE key \in tracked : k = "target|" \o key]
                 IN  PySlice(val, 2, Len(val))
            ELSE PySlice(traj[k], 0, -2)]

\* add_targets().fn, add_history = True
add_targets(traj) ==
    LET fields == "world_pos"
        tracked == { key \in DOMAIN traj : InString(key, fields) }
        keys == (DOMAIN traj) \cup { "prev|" \o key : key \in tracked }
                              \cup { "target|" \o key : key \in tracked }
    IN  [k \in keys |->
            IF \E key \in tracked : k = "prev|" \o key
            THEN PySlice(traj[CHOOSE key \in tracked : k = "prev|" \o key], 0, -2)
            ELSE IF \E key \in tracked : k = "target|" \o key
            THEN LET val == traj[CHOOSE key \in tracked : k = "target|" \o key]
                 IN  PySlice(val, 2, Len(val))
            ELSE PySlice(traj[k], 1, -1)]

\* add_noise: the noise is a random sample, kept as the symbol of the frame it
\* was drawn for, masked by the frame's node_type; world_pos receives it whole
\* and target|world_pos scaled by 1 - noise_gamma = 9/10
add_noise(frame, i) ==
    LET noise == [sample |-> i, mask |-> frame["node_type"]]
    IN  [frame EXCEPT
            !["world_pos"] = [value |-> @, noise |-> noise, scale |-> <<1, 1>>],
            !["target|world_pos"] = [value |-> @, noise |-> noise, scale |-> <<9, 10>>]]

\* the fields element_operation reads, in the order it reads them
FrameFields ==
    << "world_pos", "mesh_pos", "node_type", "cells", "target|world_pos", "prev|world_pos" >>

\* split_and_preprocess().element_operation: the list of frames, or the error
\* raised by a missing field or by an index i past the end of a field
element_operation(traj) ==
    IF \E f \in 1..Len(FrameFields) : FrameFields[f] \notin DOMAIN traj
    THEN [error |-> "KeyError"]
    ELSE IF \E f \in 1..Len(FrameFields) : Len(traj[FrameFields[f]]) < RangeSteps
    THEN [error |-> "IndexError"]
    ELSE [frames |->
            [i \in 1..RangeSteps |->
                add_noise([k \in { FrameFields[f] : f \in 1..Len(FrameFields) } |->
                              traj[k][i]], i - 1)]]

InitDataset ==
    /\ d_pc = "stored"
    /\ meta \in [trajectory_length : TrajectoryLengths, types : FieldTypes]
    /\ flags \in [add_targets : BOOLEAN, split_and_preprocess : BOOLEAN]
    /\ trajectory = <<>>
    /\ with_targets = <<>>
    /\ returned = <<>>
    /\ IdleSegment
    /\ IdleModel
    /\ IdleNet

\* __getitem__: every field of the sample is decoded; a type other than
\* static, dynamic_varlen and dynamic raises ValueError
DecodeSample ==
    /\ d_pc = "stored"
    /\ IF \E key \in FieldNames :
             meta.types[key] \notin {"static", "dynamic_varlen", "dynamic"}
       THEN /\ d_pc' = "raised"
            /\ returned' = [error |-> "ValueError"]
            /\ UNCHANGED trajectory
       ELSE /\ d_pc' = "decoded"
            /\ trajectory' = decode(meta)
            /\ UNCHANGED returned
    /\ UNCHANGED <<meta, flags, with_targets>>
    /\ UNCHANGED <<segVars, modelVars, netVars>>

\* if self._add_targets: trajectory = self.add_targets()(trajectory)
AddTargets ==
    /\ d_pc = "decoded"
    /\ with_targets' = IF flags.add_targets THEN add_targets(trajectory) ELSE trajectory
    /\ d_pc' = "targeted"
    /\ UNCHANGED <<meta, flags, trajectory, returned>>
    /\ UNCHANGED <<segVars, modelVars, netVars>>

\* if self._split_and_preprocess: trajectory = self.split_and_preprocess()(trajectory)
\* return trajectory
SplitAndPreprocess ==
    /\ d_pc = "targeted"
    /\ LET result == IF flags.split_and_preprocess
                     THEN element_operation(with_targets)
                     ELSE [trajectory |-> with_targets]
       IN  /\ returned' = result
           /\ d_pc' = IF "error" \in DOMAIN result THEN "raised" ELSE "returned"
    /\ UNCHANGED <<meta, flags, trajectory, with_targets>>
    /\ UNCHANGED <<segVars, modelVars, netVars>>

NextDataset == DecodeSample \/ AddTargets \/ SplitAndPreprocess

SpecDataset == InitDataset /\ [][NextDataset]_vars

-----------------------------------------------------------------------------
(* Properties of the segment reduction *)

\* the rows of seg_data whose segment id is n
SegmentRowsOf(n) == { e \in 1..Rows(seg_data) : seg_ids[e] = n }

RECURSIVE ColumnSum(_, _)
ColumnSum(S, j) ==
    IF S = {} THEN R(0)
    ELSE LET e == CHOOSE x \in S : TRUE
         IN  QAdd(seg_data.val[e][j], ColumnSum(S \ {e}, j))

\* v is the greatest (least) value of column j over the rows S
IsColumnMax(v, S, j) ==
    /\ \E e \in S : seg_data.val[e][j] = v
    /\ \A e \in S : ~QLess(v, seg_data.val[e][j])

IsColumnMin(v, S, j) ==
    /\ \E e \in S : seg_data.val[e][j] = v
    /\ \A e \in S : ~QLess(seg_data.val[e][j], v)

\* C3: with the aggregator `sum` the reduction of a node update returns, for
\* each node n, the element-wise sum of the edge rows received by n; with
\* `max` and `min` the element-wise maximum and minimum of those rows.
C3_NamedAggregatorReduces ==
    seg_pc = "done" =>
        \A n \in 0..(seg_num - 1) : \A j \in 1..Cols(seg_data) :
            LET S == SegmentRowsOf(n)
                v == seg_result.val[n + 1][j]
            IN  /\ seg_agg = "sum" => v = ColumnSum(S, j)
                /\ (seg_agg = "max" /\ S # {}) => IsColumnMax(v, S, j)
                /\ (seg_agg = "min" /\ S # {}) => IsColumnMin(v, S, j)

\* C4: with the aggregator `mean` the value of a non-empty segment is the sum
\* of its rows divided by the number of rows of that same segment.
C4_MeanDividesByOwnCount ==
    (seg_pc = "done" /\ seg_agg = "mean") =>
        \A n \in 0..(seg_num - 1) : \A j \in 1..Cols(seg_data) :
            LET S == SegmentRowsOf(n)
            IN  S # {} =>
                  QMul(seg_result.val[n + 1][j], R(Cardinality(S))) = ColumnSum(S, j)

\* segments of sizes {1,1,2} holding {[1],[3],[2,4]} reduce to [1],[3],[3]
C4_Witness ==
    /\ seg_pc = "done" /\ seg_agg = "mean"
    /\ seg_num = 3 /\ seg_ids = <<0, 2, 1, 2>>
    /\ [e \in 1..4 |-> seg_data.val[e][1]] = <<R(1), R(2), R(3), R(4)>>
    /\ [n \in 1..3 |-> seg_result.val[n][1]] = <<R(1), R(3), R(3)>>

\* C5: for every aggregator the result has num_segments rows of the input
\* feature width, and a segment that receives no row is the all-zero vector.
C5_ShapeAndEmptySegmentsZero ==
    seg_pc = "done" =>
        /\ seg_result.shape = <<seg_num, Cols(seg_data)>>
        /\ Len(seg_result.val) = seg_num
        /\ \A n \in 0..(seg_num - 1) :
              /\ Len(seg_result.val[n + 1]) = Cols(seg_data)
              /\ SegmentRowsOf(n) = {} =>
                    \A j \in 1..Cols(seg_data) : seg_result.val[n + 1][j] = R(0)

\* a max reduction of one row into two segments: the second segment is empty
C5_Witness ==
    /\ seg_pc = "done" /\ seg_agg = "max"
    /\ seg_num = 2 /\ seg_ids = <<0>>
    /\ seg_result.val[1] = seg_data.val[1]
    /\ seg_result.val[2] = <<R(0), R(0)>>

-----------------------------------------------------------------------------
(* Properties of Model.forward *)

\* C1: in inference mode the returned position of every node and coordinate
\* is 2 * world_pos - prev|world_pos + the learned model's output.
C1_Integrator ==
    (m_pc = "done" /\ ~is_training) =>
        /\ m_result.shape = inputs["world_pos"].shape
        /\ \A n \in 1..Rows(inputs["world_pos"]) : \A c \in 1..3 :
              m_result.val[n][c] =
                  QAdd(QSub(QMul(R(2), inputs["world_pos"].val[n][c]),
                            inputs["prev|world_pos"].val[n][c]),
                       m_output.val[n][c])

\* current = [1,0,0], previous = [0,0,0], predicted = [0,0,0] gives [2,0,0]
C1_Witness ==
    /\ m_pc = "done" /\ ~is_training
    /\ \E n \in 1..Rows(m_result) :
         /\ inputs["world_pos"].val[n] = IntRow(<<1, 0, 0>>)
         /\ inputs["prev|world_pos"].val[n] = IntRow(<<0, 0, 0>>)
         /\ m_output.val[n] = IntRow(<<0, 0, 0>>)
         /\ m_result.val[n] = IntRow(<<2, 0, 0>>)
    /\ \E n \in 1..Rows(m_result) :
         /\ inputs["prev|world_pos"].val[n] # IntRow(<<0, 0, 0>>)
         /\ m_output.val[n] # IntRow(<<0, 0, 0>>)

\* C2: the mode alone selects the integrator: training returns the learned
\* model's output unchanged, inference the integrated position; in both modes
\* the learned model is applied exactly once, to the graph of the frame.
C2_ModeSelectsIntegrator ==
    m_pc = "done" =>
        /\ is_training => m_result = m_output
        /\ ~is_training =>
              m_result = TAdd(TSub(TScale(R(2), inputs["world_pos"]),
                                   inputs["prev|world_pos"]), m_output)
        /\ Len(m_calls) = 1
        /\ Rows(m_calls[1].node_features) = Rows(inputs["world_pos"])
        /\ \A n \in 1..Rows(inputs["world_pos"]) : \A c \in 1..3 :
              m_calls[1].node_features.val[n][c] =
                  QSub(inputs["world_pos"].val[n][c], inputs["prev|world_pos"].val[n][c])
        /\ Len(m_calls[1].edge_sets) = 1
        /\ Rows(m_calls[1].edge_sets[1].features) = 6 * Len(inputs["cells"])

\* a training call on a frame with a triangle whose decoder output differs
\* from the integrated position
C2_Witness ==
    /\ m_pc = "done" /\ is_training
    /\ Len(inputs["cells"]) = 1
    /\ m_result = m_output
    /\ m_result # TAdd(TSub(TScale(R(2), inputs["world_pos"]),
                            inputs["prev|world_pos"]), m_output)

-----------------------------------------------------------------------------
(* Properties of EncodeProcessDecode *)

NumNodes == Rows(graph.node_features)

\* C6: a model with an aggregator name outside {sum, mean, max, min}, or with
\* a non-positive message_passing_steps or latent width, is never constructed:
\* construction fails, so no forward pass runs on such a model.
C6_InvalidConfigurationRejected ==
    pc \in {"constructed", "processing", "pooled", "done"} =>
        /\ config.message_passing_aggregator \in {"sum", "mean", "max", "min"}
        /\ config.message_passing_steps > 0
        /\ config.latent_size > 0

\* the salience of node n (0-based) of the raw graph
Salience(n) == sum_of_squares(velocity_columns(graph.node_features))[n + 1]

\* the nodes by descending salience, ties by ascending node index
StableOrder ==
    CHOOSE o \in [1..NumNodes -> 0..(NumNodes - 1)] :
        \A i, j \in 1..NumNodes :
            i < j => \/ QLess(Salience(o[j]), Salience(o[i]))
                     \/ (Salience(o[j]) = Salience(o[i]) /\ o[i] < o[j])

\* C7: the watcher selects exactly ceil(0.01 * N) nodes, the first in the
\* order of descending salience with ties broken by ascending node index.
C7_StableTopSelection ==
    pc \in {"pooled", "done"} =>
        /\ Len(sort_indices) * 100 >= NumNodes
        /\ (Len(sort_indices) - 1) * 100 < NumNodes
        /\ \A k \in 1..Len(sort_indices) : sort_indices[k] = StableOrder[k]

\* C8 as stated: the product of the gate with the latent node features is an
\* N x L matrix.
C8_MixedIsNByL ==
    pc \in {"pooled", "done"} => mixed.shape = <<NumNodes, config.latent_size>>

\* C8 as amended: the gate is N x L, its product with the transposed latent
\* node features is N x N (one N-wide row per node), and the reduce network
\* maps that to the N x L node features of the latent graph.
C8_MixedIsNByN ==
    pc \in {"pooled", "done"} =>
        /\ gate.shape = <<NumNodes, config.latent_size>>
        /\ mixed.shape = <<NumNodes, NumNodes>>
        /\ Len(mixed.val) = NumNodes
        /\ \A n \in 1..NumNodes : Len(mixed.val[n]) = NumNodes
        /\ latent_graph.node_features.shape = <<NumNodes, config.latent_size>>
        /\ \A n \in 1..NumNodes :
              Len(latent_graph.node_features.val[n]) = config.latent_size

\* two nodes and a latent width of 1: the product is 2 x 2
C8_Witness ==
    /\ pc = "pooled"
    /\ NumNodes = 2 /\ config.latent_size = 1
    /\ mixed.shape = <<2, 2>>

\* C9: after a GraphNetBlock every node latent is the node network's output
\* plus the node's input latent and every edge latent the edge network's
\* output plus the edge's input latent; networks that return their entity's
\* own input latent therefore double every latent.
C9_Residual ==
    (pc = "processing" /\ step >= 1) =>
        /\ \A n \in 1..Rows(block_in.node_features) :
           \A c \in 1..Cols(block_in.node_features) :
              latent_graph.node_features.val[n][c] =
                  QAdd(block_out.node_features.val[n][c], block_in.node_features.val[n][c])
        /\ \A i \in 1..Len(block_in.edge_sets) :
           \A e \in 1..Rows(block_in.edge_sets[i].features) :
           \A c \in 1..Cols(block_in.edge_sets[i].features) :
              latent_graph.edge_sets[i].features.val[e][c] =
                  QAdd(block_out.edge_features[i].val[e][c],
                       block_in.edge_sets[i].features.val[e][c])
        /\ (params.edge = "last" /\ params.node = "first") =>
              /\ latent_graph.node_features = TScale(R(2), block_in.node_features)
              /\ \A i \in 1..Len(block_in.edge_sets) :
                    latent_graph.edge_sets[i].features =
                        TScale(R(2), block_in.edge_sets[i].features)

\* the second block of a model of identity networks has doubled non-zero
\* node and edge latents
C9_Witness ==
    /\ pc = "processing" /\ step = 2
    /\ params.edge = "last" /\ params.node = "first"
    /\ Len(block_in.edge_sets) = 1 /\ Rows(block_in.edge_sets[1].features) = 2
    /\ block_out.node_features = block_in.node_features
    /\ block_out.edge_features[1] = block_in.edge_sets[1].features
    /\ latent_graph.node_features = TScale(R(2), block_in.node_features)
    /\ latent_graph.node_features # block_in.node_features
    /\ latent_graph.edge_sets[1].features # block_in.edge_sets[1].features

\* C10: after the encoder, after every GraphNetBlock and after the watcher
\* the latent graph has the raw graph's number of nodes and its edge sets in
\* the same order, each with the same name, number of edges, senders and
\* receivers; every sender and receiver indexes a row of node_features.
C10_GraphStructurePreserved ==
    pc \in {"processing", "pooled", "done"} =>
        /\ Rows(latent_graph.node_features) = NumNodes
        /\ Len(latent_graph.node_features.val) = NumNodes
        /\ Len(latent_graph.edge_sets) = Len(graph.edge_sets)
        /\ \A i \in 1..Len(graph.edge_sets) :
              LET es == latent_graph.edge_sets[i]
                  raw == graph.edge_sets[i]
              IN  /\ es.name = raw.name
                  /\ Rows(es.features) = Rows(raw.features)
                  /\ Len(es.features.val) = Len(raw.senders)
                  /\ es.senders = raw.senders
                  /\ es.receivers = raw.receivers
                  /\ \A e \in 1..Len(es.senders) :
                        /\ es.senders[e] \in 0..(Rows(latent_graph.node_features) - 1)
                        /\ es.receivers[e] \in 0..(Rows(latent_graph.node_features) - 1)

\* a graph of two nodes and two edge sets after two blocks and the watcher
C10_Witness ==
    /\ pc = "pooled" /\ step = 2
    /\ NumNodes = 2
    /\ Len(graph.edge_sets) = 2
    /\ latent_graph.edge_sets[2].name = "world_edges"
    /\ latent_graph.edge_sets[2].receivers = graph.edge_sets[2].receivers
    /\ latent_graph.edge_sets[1].features # graph.edge_sets[1].features

\* the rows of the edge network's input for edge set i of the block's input:
\* input latent of the sender, input latent of the receiver, input edge latent
EdgeNetworkInput(i) ==
    LET es == block_in.edge_sets[i]
    IN  [e \in 1..Len(es.senders) |->
            block_in.node_features.val[es.senders[e] + 1]
            \o block_in.node_features.val[es.receivers[e] + 1]
            \o es.features.val[e]]

\* the rows of the node network's input: the input latent of the node, then
\* for every edge set the reduction by receiver of the edge network's outputs
NodeNetworkInput ==
    LET N == Rows(block_in.node_features)
        reduced == [i \in 1..Len(block_in.edge_sets) |->
                       unsorted_segment_operation(block_out.edge_features[i],
                           block_in.edge_sets[i].receivers, N,
                           config.message_passing_aggregator)]
    IN  Cat(<< block_in.node_features >> \o Eager(reduced)).val

\* C11: inside one GraphNetBlock the edge network reads the block's input
\* latents of the sender, the receiver and the edge; the node network reads
\* the node's input latent and the reduction by receiver of the edge network's
\* outputs as they are before the residual; the residual is added to nodes
\* and edges after both updates.
C11_UpdateOrder ==
    (pc = "processing" /\ step >= 1) =>
        /\ \A i \in 1..Len(block_in.edge_sets) :
           \A e \in 1..Len(block_in.edge_sets[i].senders) :
              \A c \in 1..config.latent_size :
                 block_out.edge_features[i].val[e][c] =
                     NetRow(params.edge, config.latent_size, EdgeNetworkInput(i)[e])[c]
        /\ \A n \in 1..Rows(block_in.node_features) :
           \A c \in 1..config.latent_size :
              block_out.node_features.val[n][c] =
                  NetRow(params.node, config.latent_size, NodeNetworkInput[n])[c]
        /\ latent_graph.node_features =
               TAdd(block_out.node_features, block_in.node_features)
        /\ \A i \in 1..Len(block_in.edge_sets) :
              latent_graph.edge_sets[i].features =
                  TAdd(block_out.edge_features[i], block_in.edge_sets[i].features)

\* a second block whose networks mix all their inputs, over two nodes and two
\* edges, where the edge outputs differ from the edge latents after the
\* residual and the node outputs from the node latents after the residual
C11_Witness ==
    /\ pc = "processing" /\ step = 2
    /\ params.edge = "sum" /\ params.node = "sum"
    /\ config.message_passing_aggregator = "mean"
    /\ Rows(block_in.node_features) = 2
    /\ Len(block_in.edge_sets) = 1
    /\ Len(block_in.edge_sets[1].senders) = 2
    /\ block_out.edge_features[1] # latent_graph.edge_sets[1].features
    /\ block_out.node_features # latent_graph.node_features
    /\ block_out.node_features # block_in.node_features
    /\ block_out.node_features.val[1] =
           NetRow("sum", config.latent_size, NodeNetworkInput[1])

-----------------------------------------------------------------------------
(* Properties of FlagSimpleDataset *)

\* the number of frames left of T time steps once the first and last are cut
FramesLeft(T) == IF T >= 2 THEN T - 2 ELSE 0

\* C12: for a trajectory of T time steps add_targets returns T - 2 frames per
\* field; at every output index i, prev|world_pos is step i, world_pos step
\* i + 1 and target|world_pos step i + 2 of the original world_pos; every
\* other field is taken at original step i + 1 and gets no prev| or target|
\* companion.
C12_TargetsAreConsecutiveSteps ==
    (d_pc \in {"targeted", "returned", "raised"} /\ DOMAIN with_targets # {}
        /\ flags.add_targets) =>
        LET n == FramesLeft(meta.trajectory_length)
        IN  /\ DOMAIN with_targets =
                   FieldNames \cup {"prev|world_pos", "target|world_pos"}
            /\ \A k \in DOMAIN with_targets : Len(with_targets[k]) = n
            /\ \A i \in 0..(n - 1) :
                 /\ with_targets["prev|world_pos"][i + 1] = trajectory["world_pos"][i + 1]
                 /\ with_targets["world_pos"][i + 1] = trajectory["world_pos"][i + 2]
                 /\ with_targets["target|world_pos"][i + 1] = trajectory["world_pos"][i + 3]
                 /\ \A k \in FieldNames : with_targets[k][i + 1] = trajectory[k][i + 2]

\* a trajectory of four time steps in which every field changes with time
C12_Witness ==
    /\ d_pc = "targeted" /\ flags.add_targets
    /\ meta.trajectory_length = 4
    /\ meta.types["mesh_pos"] = "dynamic"
    /\ with_targets["prev|world_pos"] =
           << StoredFrame("world_pos", 0), StoredFrame("world_pos", 1) >>
    /\ with_targets["world_pos"] =
           << StoredFrame("world_pos", 1), StoredFrame("world_pos", 2) >>
    /\ with_targets["target|world_pos"] =
           << StoredFrame("world_pos", 2), StoredFrame("world_pos", 3) >>
    /\ with_targets["mesh_pos"] =
           << StoredFrame("mesh_pos", 1), StoredFrame("mesh_pos", 2) >>

\* C13: for a trajectory of any length T >= 3, split_and_preprocess applied
\* after add_targets returns one frame per time step of the target-augmented
\* trajectory: T - 2 frames, frame i built from index i of every field, no
\* step skipped and no index past the end.
C13_OneFramePerStep ==
    (d_pc \in {"returned", "raised"} /\ DOMAIN with_targets # {}
        /\ flags.add_targets /\ flags.split_and_preprocess
        /\ meta.trajectory_length >= 3) =>
        /\ DOMAIN returned = {"frames"}
        /\ Len(returned.frames) = meta.trajectory_length - 2
        /\ \A i \in 1..Len(returned.frames) :
             LET frame == returned.frames[i]
             IN  /\ frame["world_pos"].value = with_targets["world_pos"][i]
                 /\ frame["target|world_pos"].value = with_targets["target|world_pos"][i]
                 /\ frame["prev|world_pos"] = with_targets["prev|world_pos"][i]
                 /\ frame["mesh_pos"] = with_targets["mesh_pos"][i]
                 /\ frame["node_type"] = with_targets["node_type"][i]
                 /\ frame["cells"] = with_targets["cells"][i]

====
